---- MODULE Spec2Model ----
(***************************************************************************)
(* A model of oxidized-json-checker: the pushdown automaton that validates *)
(* a stream of JSON bytes (src/src/internals.rs, src/src/lib.rs), its      *)
(* io::Read adapter and the one-shot validators.                           *)
(***************************************************************************)
EXTENDS Integers, Sequences, FiniteSets, TLC

(***************************************************************************)
(* internals.rs: the enumerations, in declaration order.                   *)
(***************************************************************************)
Class ==
  << "CSpace", "CWhite", "CLcurb", "CRcurb", "CLsqrb", "CRsqrb", "CColon", "CComma",
     "CQuote", "CBacks", "CSlash", "CPlus", "CMinus", "CPoint", "CZero", "CDigit",
     "CLowA", "CLowB", "CLowC", "CLowD", "CLowE", "CLowF", "CLowL", "CLowN",
     "CLowR", "CLowS", "CLowT", "CLowU", "CAbcdf", "CE", "CEtc", "Invalid" >>

State ==
  << "Go", "Ok", "Ob", "Ke", "Co", "Va", "Ar", "St",
     "Es", "U1", "U2", "U3", "U4", "Mi", "Ze", "In",
     "Fr", "Fs", "E1", "E2", "E3", "T1", "T2", "T3",
     "F1", "F2", "F3", "F4", "N1", "N2", "N3", "Wcl",
     "Wcm", "Wq", "Wos", "Woc", "Ws", "Wcu", "Wec", "Invalid" >>

Mode == {"Array", "Done", "Key", "Object", "String"}

JsonType == {"Null", "Bool", "Number", "String", "Array", "Object"}

Error ==
  {"InvalidCharacter", "EmptyCurlyBraces", "OrphanCurlyBrace", "OrphanSquareBrace",
   "MaxDepthReached", "InvalidQuote", "InvalidComma", "InvalidColon",
   "InvalidState", "IncompleteElement"}

\* `x as usize` of an enum value: its position in the declaration, from 0.
Ord(enum, x) == (CHOOSE i \in 1..Len(enum) : enum[i] = x) - 1

\* ASCII_CLASS[b] is entry b + 1: the 128 ASCII bytes, eight to a row.
ASCII_CLASS ==
  LET xxx == "Invalid"
      CSpace == "CSpace"
      CWhite == "CWhite"
      CLcurb == "CLcurb"
      CRcurb == "CRcurb"
      CLsqrb == "CLsqrb"
      CRsqrb == "CRsqrb"
      CColon == "CColon"
      CComma == "CComma"
      CQuote == "CQuote"
      CBacks == "CBacks"
      CSlash == "CSlash"
      CPlus == "CPlus"
      CMinus == "CMinus"
      CPoint == "CPoint"
      CZero == "CZero"
      CDigit == "CDigit"
      CLowA == "CLowA"
      CLowB == "CLowB"
      CLowC == "CLowC"
      CLowD == "CLowD"
      CLowE == "CLowE"
      CLowF == "CLowF"
      CLowL == "CLowL"
      CLowN == "CLowN"
      CLowR == "CLowR"
      CLowS == "CLowS"
      CLowT == "CLowT"
      CLowU == "CLowU"
      CAbcdf == "CAbcdf"
      CE == "CE"
      CEtc == "CEtc"
  IN <<
    xxx, xxx, xxx, xxx, xxx, xxx, xxx, xxx,
    xxx, CWhite, CWhite, xxx, xxx, CWhite, xxx, xxx,
    xxx, xxx, xxx, xxx, xxx, xxx, xxx, xxx,
    xxx, xxx, xxx, xxx, xxx, xxx, xxx, xxx,
    CSpace, CEtc, CQuote, CEtc, CEtc, CEtc, CEtc, CEtc,
    CEtc, CEtc, CEtc, CPlus, CComma, CMinus, CPoint, CSlash,
    CZero, CDigit, CDigit, CDigit, CDigit, CDigit, CDigit, CDigit,
    CDigit, CDigit, CColon, CEtc, CEtc, CEtc, CEtc, CEtc,
    CEtc, CAbcdf, CAbcdf, CAbcdf, CAbcdf, CE, CAbcdf, CEtc,
    CEtc, CEtc, CEtc, CEtc, CEtc, CEtc, CEtc, CEtc,
    CEtc, CEtc, CEtc, CEtc, CEtc, CEtc, CEtc, CEtc,
    CEtc, CEtc, CEtc, CLsqrb, CBacks, CRsqrb, CEtc, CEtc,
    CEtc, CLowA, CLowB, CLowC, CLowD, CLowE, CLowF, CEtc,
    CEtc, CEtc, CEtc, CEtc, CLowL, CEtc, CLowN, CEtc,
    CEtc, CEtc, CLowR, CLowS, CLowT, CLowU, CEtc, CEtc,
    CEtc, CEtc, CEtc, CLcurb, CEtc, CRcurb, CEtc, CEtc
  >>

\* STATE_TRANSITION_TABLE[s][c] is entry [Ord(State, s) + 1][Ord(Class, c) + 1].
STATE_TRANSITION_TABLE ==
  LET xx == "Invalid"
      Go == "Go"
      Ok == "Ok"
      Ob == "Ob"
      Ke == "Ke"
      Co == "Co"
      Va == "Va"
      Ar == "Ar"
      St == "St"
      Es == "Es"
      U1 == "U1"
      U2 == "U2"
      U3 == "U3"
      U4 == "U4"
      Mi == "Mi"
      Ze == "Ze"
      In == "In"
      Fr == "Fr"
      Fs == "Fs"
      E1 == "E1"
      E2 == "E2"
      E3 == "E3"
      T1 == "T1"
      T2 == "T2"
      T3 == "T3"
      F1 == "F1"
      F2 == "F2"
      F3 == "F3"
      F4 == "F4"
      N1 == "N1"
      N2 == "N2"
      N3 == "N3"
      Wcl == "Wcl"
      Wcm == "Wcm"
      Wq == "Wq"
      Wos == "Wos"
      Woc == "Woc"
      Ws == "Ws"
      Wcu == "Wcu"
      Wec == "Wec"
  IN <<
    (* GO *) << Go, Go,Woc, xx,Wos, xx, xx, xx, xx, xx, xx, xx, xx, xx, xx, xx, xx, xx, xx, xx, xx, xx, xx, xx, xx, xx, xx, xx, xx, xx, xx>>,
    (* OK *) << Ok, Ok, xx,Wcu, xx, Ws, xx,Wcm, xx, xx, xx, xx, xx, xx, xx, xx, xx, xx, xx, xx, xx, xx, xx, xx, xx, xx, xx, xx, xx, xx, xx>>,
    (* OB *) << Ob, Ob, xx,Wec, xx, xx, xx, xx, St, xx, xx, xx, xx, xx, xx, xx, xx, xx, xx, xx, xx, xx, xx, xx, xx, xx, xx, xx, xx, xx, xx>>,
    (* KE *) << Ke, Ke, xx, xx, xx, xx, xx, xx, St, xx, xx, xx, xx, xx, xx, xx, xx, xx, xx, xx, xx, xx, xx, xx, xx, xx, xx, xx, xx, xx, xx>>,
    (* CO *) << Co, Co, xx, xx, xx, xx,Wcl, xx, xx, xx, xx, xx, xx, xx, xx, xx, xx, xx, xx, xx, xx, xx, xx, xx, xx, xx, xx, xx, xx, xx, xx>>,
    (* VA *) << Va, Va,Woc, xx,Wos, xx, xx, xx, St, xx, xx, xx, Mi, xx, Ze, In, xx, xx, xx, xx, xx, F1, xx, N1, xx, xx, T1, xx, xx, xx, xx>>,
    (* AR *) << Ar, Ar,Woc, xx,Wos, Ws, xx, xx, St, xx, xx, xx, Mi, xx, Ze, In, xx, xx, xx, xx, xx, F1, xx, N1, xx, xx, T1, xx, xx, xx, xx>>,
    (* ST *) << St, xx, St, St, St, St, St, St, Wq, Es, St, St, St, St, St, St, St, St, St, St, St, St, St, St, St, St, St, St, St, St, St>>,
    (* ES *) << xx, xx, xx, xx, xx, xx, xx, xx, St, St, St, xx, xx, xx, xx, xx, xx, St, xx, xx, xx, St, xx, St, St, xx, St, U1, xx, xx, xx>>,
    (* U1 *) << xx, xx, xx, xx, xx, xx, xx, xx, xx, xx, xx, xx, xx, xx, U2, U2, U2, U2, U2, U2, U2, U2, xx, xx, xx, xx, xx, xx, U2, U2, xx>>,
    (* U2 *) << xx, xx, xx, xx, xx, xx, xx, xx, xx, xx, xx, xx, xx, xx, U3, U3, U3, U3, U3, U3, U3, U3, xx, xx, xx, xx, xx, xx, U3, U3, xx>>,
    (* U3 *) << xx, xx, xx, xx, xx, xx, xx, xx, xx, xx, xx, xx, xx, xx, U4, U4, U4, U4, U4, U4, U4, U4, xx, xx, xx, xx, xx, xx, U4, U4, xx>>,
    (* U4 *) << xx, xx, xx, xx, xx, xx, xx, xx, xx, xx, xx, xx, xx, xx, St, St, St, St, St, St, St, St, xx, xx, xx, xx, xx, xx, St, St, xx>>,
    (* MI *) << xx, xx, xx, xx, xx, xx, xx, xx, xx, xx, xx, xx, xx, xx, Ze, In, xx, xx, xx, xx, xx, xx, xx, xx, xx, xx, xx, xx, xx, xx, xx>>,
    (* ZE *) << Ok, Ok, xx,Wcu, xx, Ws, xx,Wcm, xx, xx, xx, xx, xx, Fr, xx, xx, xx, xx, xx, xx, E1, xx, xx, xx, xx, xx, xx, xx, xx, E1, xx>>,
    (* IN *) << Ok, Ok, xx,Wcu, xx, Ws, xx,Wcm, xx, xx, xx, xx, xx, Fr, In, In, xx, xx, xx, xx, E1, xx, xx, xx, xx, xx, xx, xx, xx, E1, xx>>,
    (* FR *) << xx, xx, xx, xx, xx, xx, xx, xx, xx, xx, xx, xx, xx, xx, Fs, Fs, xx, xx, xx, xx, xx, xx, xx, xx, xx, xx, xx, xx, xx, xx, xx>>,
    (* FS *) << Ok, Ok, xx,Wcu, xx, Ws, xx,Wcm, xx, xx, xx, xx, xx, xx, Fs, Fs, xx, xx, xx, xx, E1, xx, xx, xx, xx, xx, xx, xx, xx, E1, xx>>,
    (* E1 *) << xx, xx, xx, xx, xx, xx, xx, xx, xx, xx, xx, E2, E2, xx, E3, E3, xx, xx, xx, xx, xx, xx, xx, xx, xx, xx, xx, xx, xx, xx, xx>>,
    (* E2 *) << xx, xx, xx, xx, xx, xx, xx, xx, xx, xx, xx, xx, xx, xx, E3, E3, xx, xx, xx, xx, xx, xx, xx, xx, xx, xx, xx, xx, xx, xx, xx>>,
    (* E3 *) << Ok, Ok, xx,Wcu, xx, Ws, xx,Wcm, xx, xx, xx, xx, xx, xx, E3, E3, xx, xx, xx, xx, xx, xx, xx, xx, xx, xx, xx, xx, xx, xx, xx>>,
    (* T1 *) << xx, xx, xx, xx, xx, xx, xx, xx, xx, xx, xx, xx, xx, xx, xx, xx, xx, xx, xx, xx, xx, xx, xx, xx, T2, xx, xx, xx, xx, xx, xx>>,
    (* T2 *) << xx, xx, xx, xx, xx, xx, xx, xx, xx, xx, xx, xx, xx, xx, xx, xx, xx, xx, xx, xx, xx, xx, xx, xx, xx, xx, xx, T3, xx, xx, xx>>,
    (* T3 *) << xx, xx, xx, xx, xx, xx, xx, xx, xx, xx, xx, xx, xx, xx, xx, xx, xx, xx, xx, xx, Ok, xx, xx, xx, xx, xx, xx, xx, xx, xx, xx>>,
    (* F1 *) << xx, xx, xx, xx, xx, xx, xx, xx, xx, xx, xx, xx, xx, xx, xx, xx, F2, xx, xx, xx, xx, xx, xx, xx, xx, xx, xx, xx, xx, xx, xx>>,
    (* F2 *) << xx, xx, xx, xx, xx, xx, xx, xx, xx, xx, xx, xx, xx, xx, xx, xx, xx, xx, xx, xx, xx, xx, F3, xx, xx, xx, xx, xx, xx, xx, xx>>,
    (* F3 *) << xx, xx, xx, xx, xx, xx, xx, xx, xx, xx, xx, xx, xx, xx, xx, xx, xx, xx, xx, xx, xx, xx, xx, xx, xx, F4, xx, xx, xx, xx, xx>>,
    (* F4 *) << xx, xx, xx, xx, xx, xx, xx, xx, xx, xx, xx, xx, xx, xx, xx, xx, xx, xx, xx, xx, Ok, xx, xx, xx, xx, xx, xx, xx, xx, xx, xx>>,
    (* N1 *) << xx, xx, xx, xx, xx, xx, xx, xx, xx, xx, xx, xx, xx, xx, xx, xx, xx, xx, xx, xx, xx, xx, xx, xx, xx, xx, xx, N2, xx, xx, xx>>,
    (* N2 *) << xx, xx, xx, xx, xx, xx, xx, xx, xx, xx, xx, xx, xx, xx, xx, xx, xx, xx, xx, xx, xx, xx, N3, xx, xx, xx, xx, xx, xx, xx, xx>>,
    (* N3 *) << xx, xx, xx, xx, xx, xx, xx, xx, xx, xx, xx, xx, xx, xx, xx, xx, xx, xx, xx, xx, xx, xx, Ok, xx, xx, xx, xx, xx, xx, xx, xx>>
  >>

(***************************************************************************)
(* lib.rs: the JsonChecker.  A checker value is the record                 *)
(*   [state, error, outer_type, max_depth, stack]                          *)
(* (the reader field is modelled by the adapter's variables below).        *)
(* An Option is its payload or "None"; a Result<(), Error> is "Ok" or the  *)
(* error's name.                                                           *)
(***************************************************************************)
\* usize::max_value(), JsonChecker::new's max_depth.  The model takes the largest
\* integer TLC represents: the value is only compared with stack.len() + 1,
\* which MaxStack keeps far below either number.
USIZE_MAX == 2147483647

\* u8x8::lanes()
Lanes == 8

with_max_depth(d) ==
  [state |-> "Go", error |-> "None", outer_type |-> "None",
   max_depth |-> d, stack |-> <<"Done">>]

new == with_max_depth(USIZE_MAX)

\* The classification with no class for the bytes outside ASCII.
ClassOf_ascii_only(b) == IF b >= 128 THEN "Invalid" ELSE ASCII_CLASS[b + 1]

\* A byte's class: lines 289-293 of next_byte.
ClassOf(b) == IF b >= 128 THEN "CEtc" ELSE ASCII_CLASS[b + 1]

\* The table entry of state s and class c.
Entry(s, c) == STATE_TRANSITION_TABLE[Ord(State, s) + 1][Ord(Class, c) + 1]

\* The lookup with the VA row a copy of the AR row: `]` closes after a comma.
Transition_va_as_ar(s, c) == Entry(IF s = "Va" THEN "Ar" ELSE s, c)

\* The lookup with a colon let through where a value is expected.
Transition_colon_in_va(s, c) ==
  IF s = "Va" /\ c = "CColon" THEN "Va" ELSE Entry(s, c)

\* The lookup with the ZE row a copy of the IN row: digits go on after `0`.
Transition_ze_as_in(s, c) == Entry(IF s = "Ze" THEN "In" ELSE s, c)

\* The lookup with three hex digits in a \u escape: U3 returns to the body.
Transition_u3_to_st(s, c) ==
  IF s = "U3" /\ Entry(s, c) = "U4" THEN "St" ELSE Entry(s, c)

\* The lookup with the OK row taking a string as the VA row does.
Transition_ok_string(s, c) ==
  IF s = "Ok" /\ c = "CQuote" THEN "St" ELSE Entry(s, c)

\* The lookup with the AR row closing on `}` as the OB row does.
Transition_ar_empty_close(s, c) ==
  IF s = "Ar" /\ c = "CRcurb" THEN "Wec" ELSE Entry(s, c)

\* STATE_TRANSITION_TABLE[jc.state as usize][next_class as usize]
Transition(s, c) == Entry(s, c)

\* State::is_valid: not an action code and not the sink.
is_valid(s) ==
  s \notin {"Wcl", "Wcm", "Wq", "Wos", "Woc", "Ws", "Wec", "Wcu", "Invalid"}

\* Vec::last
Last(stack) == IF Len(stack) = 0 THEN "None" ELSE stack[Len(stack)]

\* push comparing the length before the push, as the C original's stack does.
push_len(jc, mode) ==
  IF Len(jc.stack) >= jc.max_depth
  THEN [ok |-> FALSE, jc |-> jc]
  ELSE [ok |-> TRUE, jc |-> [jc EXCEPT !.stack = Append(@, mode)]]

\* push refusing only once the stack is longer than max_depth.
push_over(jc, mode) ==
  IF Len(jc.stack) > jc.max_depth
  THEN [ok |-> FALSE, jc |-> jc]
  ELSE [ok |-> TRUE, jc |-> [jc EXCEPT !.stack = Append(@, mode)]]

\* push: [ok, jc]
push(jc, mode) ==
  IF Len(jc.stack) + 1 >= jc.max_depth
  THEN [ok |-> FALSE, jc |-> jc]
  ELSE [ok |-> TRUE, jc |-> [jc EXCEPT !.stack = Append(@, mode)]]

\* pop that compares the top with the expected mode and leaves it in place.
pop_peek(jc, mode) == [ok |-> Last(jc.stack) = mode, jc |-> jc]

\* pop: [ok, jc].  Vec::pop removes the top whatever it is; the comparison
\* with the expected mode comes after.
pop(jc, mode) ==
  IF Len(jc.stack) = 0
  THEN [ok |-> FALSE, jc |-> jc]
  ELSE [ok |-> Last(jc.stack) = mode,
        jc |-> [jc EXCEPT !.stack = SubSeq(@, 1, Len(@) - 1)]]

\* The inference without the Wos arm: an array leaves the slot unset.
GuessOuterType_no_array(jc, next_state) ==
  IF jc.outer_type # "None" THEN jc
  ELSE CASE next_state = "N1" -> [jc EXCEPT !.outer_type = "Null"]
         [] next_state \in {"T1", "F1"} -> [jc EXCEPT !.outer_type = "Bool"]
         [] next_state = "In" -> [jc EXCEPT !.outer_type = "Number"]
         [] next_state = "Wq" -> [jc EXCEPT !.outer_type = "String"]
         [] next_state = "Woc" -> [jc EXCEPT !.outer_type = "Object"]
         [] OTHER -> jc

\* The inference without the is_none() test: the last indicator is kept.
GuessOuterType_last(jc, next_state) ==
  CASE next_state = "N1" -> [jc EXCEPT !.outer_type = "Null"]
    [] next_state \in {"T1", "F1"} -> [jc EXCEPT !.outer_type = "Bool"]
    [] next_state = "In" -> [jc EXCEPT !.outer_type = "Number"]
    [] next_state = "Wq" -> [jc EXCEPT !.outer_type = "String"]
    [] next_state = "Wos" -> [jc EXCEPT !.outer_type = "Array"]
    [] next_state = "Woc" -> [jc EXCEPT !.outer_type = "Object"]
    [] OTHER -> jc

\* The inference that records every array and object opened.
GuessOuterType_every_open(jc, next_state) ==
  CASE next_state = "Wos" -> [jc EXCEPT !.outer_type = "Array"]
    [] next_state = "Woc" -> [jc EXCEPT !.outer_type = "Object"]
    [] jc.outer_type # "None" -> jc
    [] next_state = "N1" -> [jc EXCEPT !.outer_type = "Null"]
    [] next_state \in {"T1", "F1"} -> [jc EXCEPT !.outer_type = "Bool"]
    [] next_state = "In" -> [jc EXCEPT !.outer_type = "Number"]
    [] next_state = "Wq" -> [jc EXCEPT !.outer_type = "String"]
    [] OTHER -> jc

\* Lines 303-314: save the type we met if not already saved.
GuessOuterType(jc, next_state) ==
  IF jc.outer_type # "None" THEN jc
  ELSE CASE next_state = "N1" -> [jc EXCEPT !.outer_type = "Null"]
         [] next_state \in {"T1", "F1"} -> [jc EXCEPT !.outer_type = "Bool"]
         [] next_state = "In" -> [jc EXCEPT !.outer_type = "Number"]
         [] next_state = "Wq" -> [jc EXCEPT !.outer_type = "String"]
         [] next_state = "Wos" -> [jc EXCEPT !.outer_type = "Array"]
         [] next_state = "Woc" -> [jc EXCEPT !.outer_type = "Object"]
         [] OTHER -> jc

\* `if !jc.pop(..) { return Err(err) } jc.state = to`, p the pop's or the
\* push's outcome.
OrErr(p, err, to) ==
  IF ~p.ok THEN [jc |-> p.jc, res |-> err]
  ELSE [jc |-> [p.jc EXCEPT !.state = to], res |-> "Ok"]

\* The arm without the test of what was popped.
PopOr_unchecked(jc, mode, err, to) ==
  [jc |-> [pop(jc, mode).jc EXCEPT !.state = to], res |-> "Ok"]

\* One arm of the dispatch: pop `mode` or fail with `err`, then go to `to`.
PopOr(jc, mode, err, to) == OrErr(pop(jc, mode), err, to)

PushOr(jc, mode, err, to) == OrErr(push(jc, mode), err, to)

\* `!jc.pop(a) || !jc.push(b)`: the push is not tried when the pop fails.
ThenPush(p, b, err, to) ==
  IF ~p.ok THEN [jc |-> p.jc, res |-> err]
  ELSE PushOr(p.jc, b, err, to)

\* The flip that pushes the new mode without popping the old one.
FlipOr_push_only(jc, a, b, err, to) == PushOr(jc, b, err, to)

FlipOr(jc, a, b, err, to) == ThenPush(pop(jc, a), b, err, to)

\* Lines 316-391: the action dispatch.
Dispatch(jc, next_state) ==
  CASE next_state = "Wec" -> PopOr(jc, "Key", "EmptyCurlyBraces", "Ok")
    [] next_state = "Wcu" -> PopOr(jc, "Object", "OrphanCurlyBrace", "Ok")
    [] next_state = "Ws"  -> PopOr(jc, "Array", "OrphanSquareBrace", "Ok")
    [] next_state = "Woc" -> PushOr(jc, "Key", "MaxDepthReached", "Ob")
    [] next_state = "Wos" -> PushOr(jc, "Array", "MaxDepthReached", "Ar")
    [] next_state = "Wq"  ->
         CASE Last(jc.stack) = "Done" -> PushOr(jc, "String", "MaxDepthReached", "St")
           [] Last(jc.stack) = "String" ->
                [jc |-> [pop(jc, "String").jc EXCEPT !.state = "Ok"], res |-> "Ok"]
           [] Last(jc.stack) = "Key" -> [jc |-> [jc EXCEPT !.state = "Co"], res |-> "Ok"]
           [] Last(jc.stack) \in {"Array", "Object"} ->
                [jc |-> [jc EXCEPT !.state = "Ok"], res |-> "Ok"]
           [] OTHER -> [jc |-> jc, res |-> "InvalidQuote"]
    [] next_state = "Wcm" ->
         CASE Last(jc.stack) = "Object" -> FlipOr(jc, "Object", "Key", "InvalidComma", "Ke")
           [] Last(jc.stack) = "Array" -> [jc |-> [jc EXCEPT !.state = "Va"], res |-> "Ok"]
           [] OTHER -> [jc |-> jc, res |-> "InvalidComma"]
    [] next_state = "Wcl" -> FlipOr(jc, "Key", "Object", "InvalidColon", "Va")
    [] next_state = "Invalid" -> [jc |-> jc, res |-> "InvalidState"]
    [] OTHER -> [jc |-> [jc EXCEPT !.state = next_state], res |-> "Ok"]

\* The step of the C original: an entry that is not handled as an action is
\* stored as the state, the Invalid sink included.
Step_store_invalid(jc, next_state) ==
  IF next_state = "Invalid"
  THEN [jc |-> [jc EXCEPT !.state = next_state], res |-> "InvalidState"]
  ELSE Dispatch(GuessOuterType(jc, next_state), next_state)

\* Lines 299-393 of internal_next_byte, once the byte has a class.
Step(jc, next_state) == Dispatch(GuessOuterType(jc, next_state), next_state)

\* internal_next_byte: [jc, res]
internal_next_byte(jc, next_byte) ==
  IF ClassOf(next_byte) = "Invalid" THEN [jc |-> jc, res |-> "InvalidCharacter"]
  ELSE Step(jc, Transition(jc.state, ClassOf(next_byte)))

\* Lines 398-401: an error internal_next_byte returned is stored and returned.
Fuse(r) ==
  IF r.res # "Ok"
  THEN [jc |-> [r.jc EXCEPT !.error = r.res], res |-> r.res]
  ELSE r

\* next_byte without the latch check of lines 282-284.
next_byte_unfused(jc, b) == Fuse(internal_next_byte(jc, b))

\* next_byte: the latch check, the step, the latch set.
next_byte(jc, b) ==
  IF jc.error # "None" THEN [jc |-> jc, res |-> jc.error]
  ELSE Fuse(internal_next_byte(jc, b))

\* chunk.iter().try_for_each(|b| self.next_byte(*b)): stops at the first Err.
\* TryRest: r is what next_byte returned for the byte before `rest`.
RECURSIVE try_for_each(_, _), TryRest(_, _)
TryRest(r, rest) == IF r.res # "Ok" THEN r ELSE try_for_each(r.jc, rest)

try_for_each(jc, chunk) ==
  IF Len(chunk) = 0 THEN [jc |-> jc, res |-> "Ok"]
  ELSE TryRest(next_byte(jc, Head(chunk)), Tail(chunk))

\* The five splat comparisons of lines 250-264: " \ \t \n \r
HasSentinel(chunk) == \E i \in 1..Len(chunk) : chunk[i] \in {34, 92, 9, 10, 13}

Min(a, b) == IF a <= b THEN a ELSE b

\* next_bytes: bytes.chunks(8), each chunk fed byte by byte unless it is a
\* full chunk met in state St that holds none of the five bytes.
\* ChunkThen: one chunk, then the chunks of `rest`; `?` leaves at an Err.
RECURSIVE next_bytes(_, _), OrNext(_, _)
OrNext(r, rest) == IF r.res # "Ok" THEN r ELSE next_bytes(r.jc, rest)

ChunkThen(jc, chunk, rest) ==
  IF Len(chunk) = Lanes /\ jc.state = "St" /\ ~HasSentinel(chunk)
  THEN next_bytes(jc, rest)
  ELSE OrNext(try_for_each(jc, chunk), rest)

next_bytes(jc, bytes) ==
  IF Len(bytes) = 0 THEN [jc |-> jc, res |-> "Ok"]
  ELSE ChunkThen(jc, SubSeq(bytes, 1, Min(Lanes, Len(bytes))),
                 SubSeq(bytes, Min(Lanes, Len(bytes)) + 1, Len(bytes)))

\* The acceptance test with the start state among the acceptable ones.
is_state_valid_go(s) == s \in {"Go", "Ok", "In", "Fr", "Fs", "E3"}

is_state_valid(s) == s \in {"Ok", "In", "Fr", "Fs", "E3"}

\* into_inner that looks at the state only and never at the stack.
into_inner_state_only(jc) ==
  IF is_state_valid(jc.state)
  THEN [jc |-> jc, res |-> IF jc.outer_type = "None" THEN "Panic" ELSE jc.outer_type]
  ELSE [jc |-> jc, res |-> "IncompleteElement"]

\* into_inner / finish: [jc, res], res the outer type, "IncompleteElement",
\* or "Panic" where the expect fails.  The pop is made only for a valid state.
Expect(p, outer) ==
  IF p.ok
  THEN [jc |-> p.jc, res |-> IF outer = "None" THEN "Panic" ELSE outer]
  ELSE [jc |-> p.jc, res |-> "IncompleteElement"]

into_inner(jc) ==
  IF is_state_valid(jc.state)
  THEN Expect(pop(jc, "Done"), jc.outer_type)
  ELSE [jc |-> jc, res |-> "IncompleteElement"]

finish(jc) == into_inner(jc)

(***************************************************************************)
(* The state: one JsonChecker (its five fields), and what its caller sees. *)
(***************************************************************************)
VARIABLES
  state, error, outer_type, max_depth, stack,  \* the JsonChecker's fields
  op,      \* the method called last: "new", "next_byte", "next_bytes", "read", "finish"
  ret,     \* what that call returned: "Ok", an Error, a JsonType, an io error, "Panic"
  lastT,   \* the table entry the last next_byte looked up ("None": no lookup)
  lastB,   \* the byte the last next_byte was given (-1: the last call was another)
  firstB,  \* the first byte given to next_byte that is not whitespace (-1: none yet)
  level,   \* of the bytes next_byte consumed outside strings: the [ and { less the ] and }
  \* the reader a JsonChecker<R> wraps, and what the caller of read has got
  input,        \* every byte the source holds
  rpos,         \* how many of them the source has handed over
  sourceReads,  \* the calls made to reader.read
  sourceErr, \* the Err the last call to reader.read returned, or "None"
  delivered,    \* the bytes the successful read calls returned, in order
  retLen,       \* the n of the last read's Ok(n)
  firstErr,     \* the first error a read or a bulk feed returned ("None": none yet)
  caller,       \* who drives the adapter: "user", "validate", "validate_bytes"
  fin,          \* the validator has called finish
  \* the producer of well-formed documents: a leftmost derivation in progress
  gstack,       \* the grammar symbols still to be produced
  gtop,         \* the kind of the document's top-level value
  \* the byte-by-byte reference of the last bulk feed
  refjc, refret

jcVars == <<state, error, outer_type, max_depth, stack>>
ioVars == <<input, rpos, sourceReads, sourceErr, delivered, retLen, firstErr, caller, fin>>
genVars == <<gstack, gtop>>
refVars == <<refjc, refret>>
vars ==
  <<state, error, outer_type, max_depth, stack, op, ret, lastT, lastB, firstB, level,
    input, rpos, sourceReads, sourceErr, delivered, retLen, firstErr, caller, fin,
    gstack, gtop, refjc, refret>>

\* The checker the variables hold, and the variables set from a checker.
Self ==
  [state |-> state, error |-> error, outer_type |-> outer_type,
   max_depth |-> max_depth, stack |-> stack]

SetSelf(jc) ==
  /\ state' = jc.state
  /\ error' = jc.error
  /\ outer_type' = jc.outer_type
  /\ max_depth' = jc.max_depth
  /\ stack' = jc.stack

\* Bounds of the exploration.
MaxStack == 4
MaxDepthArg == 4

\* The bytes fed: at least one of every class, the three CWhite bytes, both
\* ends of the control range and of the high range.
Bytes ==
  {0, 9, 10, 13, 31, 32, 33, 34, 43, 44, 45, 46, 47, 48, 49, 58, 65, 69,
   91, 92, 93, 97, 98, 99, 100, 101, 102, 108, 110, 114, 115, 116, 117,
   120, 123, 125, 127, 128, 255}

\* The max_depth arguments tried, and new()'s.
MaxDepths == (0..MaxDepthArg) \cup {USIZE_MAX}

\* Space and the three bytes of class CWhite: tab, line feed, carriage return.
White == {32, 9, 10, 13}

\* The first byte fed that is not whitespace, once b is fed.
FirstByte(b) == IF firstB = -1 /\ b \notin White THEN b ELSE firstB

\* The states inside a string: its body, an escape, the hex digits of \u.
InString == {"St", "Es", "U1", "U2", "U3", "U4"}

\* The nesting level once next_byte(b) has returned res: a byte is consumed
\* when the feed succeeds.
LevelAfter(b, res) ==
  IF res # "Ok" \/ state \in InString THEN level
  ELSE IF b \in {91, 123} THEN level + 1
  ELSE IF b \in {93, 125} THEN level - 1
  ELSE level

\* The table entry next_byte(b) would look up in the current state.
Lookup(jc, b) ==
  IF jc.error # "None" \/ ClassOf(b) = "Invalid" THEN "None"
  ELSE Transition(jc.state, ClassOf(b))

\* A call returned r = [jc, res]: self is r.jc and the caller has r.res.
Returned(r) == SetSelf(r.jc) /\ ret' = r.res

\* The variables hold the checker jc.
IsSelf(jc) ==
  /\ state = jc.state
  /\ error = jc.error
  /\ outer_type = jc.outer_type
  /\ max_depth = jc.max_depth
  /\ stack = jc.stack

(***************************************************************************)
(* Spec: a caller feeds the checker one byte at a time and may finish at   *)
(* any point; finish consumes the checker.                                 *)
(***************************************************************************)
\* The parts of the state a specification does not use.
NoIo ==
  /\ input = <<>> /\ rpos = 0 /\ sourceReads = 0 /\ sourceErr = "None"
  /\ delivered = <<>> /\ retLen = 0 /\ firstErr = "None"
  /\ caller = "user" /\ fin = FALSE

NoGen == gstack = <<>> /\ gtop = "None"

NoRef == refjc = Self /\ refret = "Ok"

Init ==
  /\ \E d \in MaxDepths : IsSelf(with_max_depth(d))
  /\ op = "new" /\ ret = "Ok" /\ lastT = "None" /\ lastB = -1 /\ firstB = -1 /\ level = 0
  /\ NoIo /\ NoGen /\ NoRef

\* next_byte(b).  The exploration stops opening at MaxStack modes.
Feed(b) ==
  /\ op # "finish"
  /\ Lookup(Self, b) \in {"Wos", "Woc"} => Len(stack) < MaxStack
  /\ Returned(next_byte(Self, b))
  /\ lastT' = Lookup(Self, b) /\ lastB' = b /\ firstB' = FirstByte(b)
  /\ level' = LevelAfter(b, ret')
  /\ op' = "next_byte"
  /\ UNCHANGED <<ioVars, genVars, refVars>>

Finish ==
  /\ op # "finish"
  /\ Returned(finish(Self))
  /\ op' = "finish"
  /\ lastT' = "None" /\ lastB' = -1 /\ firstB' = firstB
  /\ level' = level
  /\ UNCHANGED <<ioVars, genVars, refVars>>

Next ==
  \/ \E b \in Bytes : Feed(b)
  \/ Finish

Spec == Init /\ [][Next]_vars

(***************************************************************************)
(* Claims about the byte-fed checker, checked under Spec.                  *)
(***************************************************************************)

\* C3: finish succeeds exactly when the state is one of Ok, In, Fr, Fs, E3 and
\* the stack is exactly [Done]; in every other case, an unclosed array, object
\* or string and a partly spelled literal among them, it returns
\* IncompleteElement.
C3_FinishIffAcceptable ==
  [][op' = "finish" =>
       IF state \in {"Ok", "In", "Fr", "Fs", "E3"} /\ stack = <<"Done">>
       THEN ret' \in JsonType
       ELSE ret' = "IncompleteElement"]_vars

\* An input whose feeds all succeeded, ended inside a string or a literal.
C3_Witness ==
  /\ op = "finish" /\ ret = "IncompleteElement" /\ error = "None"
  /\ state \in {"St", "T2", "F3", "N1"} /\ Len(stack) > 1

\* C4: once next_byte has returned an error, every later next_byte returns the
\* same error and leaves the state, the stack and the outer type as they were.
C4_FusedFeed ==
  [][(op = "next_byte" /\ ret \in Error /\ op' = "next_byte") =>
       (ret' = ret /\ state' = state /\ stack' = stack /\ outer_type' = outer_type)]_vars

\* A feed answered from the latch (no lookup) with a syntax error other than
\* the one a bad byte gives.
C4_Witness ==
  op = "next_byte" /\ lastT = "None" /\ ret \in Error \ {"InvalidCharacter"}

\* C5: once a feed has returned error E, finish returns E too, never an outer
\* type.
C5_FinishReturnsLatchedError ==
  [][(op = "next_byte" /\ ret \in Error /\ op' = "finish") => ret' = ret]_vars

C11_NoPanic ==
  /\ ret \in {"Ok"} \cup JsonType \cup Error
  /\ op = "finish" => ret \in JsonType \cup Error
  /\ (is_state_valid(state) /\ Last(stack) = "Done") => outer_type # "None"

\* finish accepted, in a checker that admits one level of nesting.
C11_Witness ==
  op = "finish" /\ ret \in JsonType /\ max_depth = 3 /\ outer_type = ret

\* C13: a feed whose table entry is the close-bracket action fails with
\* OrphanSquareBrace unless the top of the stack is Array, one whose entry is
\* the close-brace action fails with OrphanCurlyBrace unless the top is
\* Object; on a match the top is popped and the state becomes Ok.
C13_OrphanClose ==
  [][(op' = "next_byte" /\ lastT' \in {"Ws", "Wcu"}) =>
       IF Last(stack) = (IF lastT' = "Ws" THEN "Array" ELSE "Object")
       THEN /\ ret' = "Ok"
            /\ state' = "Ok"
            /\ stack' = SubSeq(stack, 1, Len(stack) - 1)
       ELSE /\ ret' = (IF lastT' = "Ws" THEN "OrphanSquareBrace" ELSE "OrphanCurlyBrace")
            /\ error' = ret']_vars

\* An extra `]` after the document closed.
C13_Witness ==
  /\ op = "next_byte" /\ lastB = 93 /\ lastT = "Ws" /\ ret = "OrphanSquareBrace"
  /\ state = "Ok" /\ outer_type = "Array" /\ stack = <<>>


\* The bytes that begin a value: a quote, `[`, `{`, `-`, a digit, t, f, n.
\* (The digits and letters are those of Bytes.)
ValueStart == {34, 91, 123, 45, 48, 49, 116, 102, 110}

\* C14: a comma separates two elements.  A comma that no value precedes (right
\* after `[`, `{`, a comma or a colon) fails; an accepted comma leads to the
\* state that expects a value in an array and a key in an object; there,
\* every byte but whitespace and the first byte of a value (of a string key
\* in an object) fails, so `["a",]`, `["a",,]`, `[ , "a"]` and `{"a": true,}`
\* fail at the byte after the comma, or at the comma.
C14_CommaSeparates ==
  [][(op' = "next_byte" /\ error = "None") =>
       /\ (lastB' = 44 /\ state \in {"Ar", "Ob", "Va", "Ke", "Co"}) => ret' \in Error
       /\ (lastT' = "Wcm" /\ ret' = "Ok") =>
            \/ Last(stack) = "Array" /\ state' = "Va"
            \/ Last(stack) = "Object" /\ state' = "Ke"
       /\ (state = "Va" /\ lastB' \notin White \cup ValueStart) => ret' \in Error
       /\ (state = "Ke" /\ lastB' \notin White \cup {34}) => ret' \in Error]_vars

\* `]` right after a comma in an array, as in ["a",]
C14_Witness ==
  /\ op = "next_byte" /\ lastB = 93 /\ ret = "InvalidState"
  /\ state = "Va" /\ stack = <<"Done", "Array">>

\* C15: an object member is a string key, one colon, a value.  Where a key is
\* expected every byte but whitespace and a quote (and `}` right after `{`)
\* fails; after the key every byte but whitespace and the colon fails, a value
\* and a comma among them; a colon is accepted nowhere but after a key and
\* inside a string, so a second colon and a colon after an array element fail.
C15_MemberShape ==
  [][(op' = "next_byte" /\ error = "None") =>
       /\ (state = "Ob" /\ lastB' \notin White \cup {34, 125}) => ret' \in Error
       /\ (state = "Ke" /\ lastB' \notin White \cup {34}) => ret' \in Error
       /\ (state = "Co" /\ lastB' \notin White \cup {58}) => ret' \in Error
       /\ (lastB' = 58 /\ ret' = "Ok") =>
            \/ state = "St" /\ state' = "St"
            \/ state = "Co" /\ Last(stack) = "Key" /\ state' = "Va"
                 /\ Last(stack') = "Object"]_vars

\* A second colon, as in {"a":: 1}
C15_Witness ==
  /\ op = "next_byte" /\ lastB = 58 /\ ret = "InvalidState"
  /\ state = "Va" /\ stack = <<"Done", "Object">>

\* The bytes that may follow a leading 0: . e E , ] } and whitespace.
ZeroFollowers == White \cup {46, 101, 69, 44, 93, 125}

\* C16: after a number's leading 0 every byte fails but `.`, `e`, `E`,
\* whitespace, `,`, `]` and `}`: a further digit and a letter such as x fail.
\* Stated of the byte fed, and of every byte value that could be fed there.
C16_LeadingZero ==
  [][(error = "None" /\ state = "Ze") =>
       /\ \A b \in (0..255) \ ZeroFollowers : next_byte(Self, b).res \in Error
       /\ (op' = "next_byte" /\ lastB' \notin ZeroFollowers) => ret' \in Error]_vars

\* A digit after -0 in an array, as in [-01
C16_Witness ==
  /\ op = "next_byte" /\ lastB = 49 /\ ret = "InvalidState"
  /\ state = "Ze" /\ stack = <<"Done", "Array">>

\* The bytes of the simple escapes: " \ / b f n r t
SimpleEscapes == {34, 92, 47, 98, 102, 110, 114, 116}

\* The hex digits: 0-9, a-f, A-F.
HexDigits == (48..57) \cup (97..102) \cup (65..70)

\* The state after a hex digit of a \u escape.
AfterHex(s) ==
  CASE s = "U1" -> "U2" [] s = "U2" -> "U3" [] s = "U3" -> "U4" [] s = "U4" -> "St"

\* C17: in a string a backslash opens an escape; after it one of the eight
\* simple escape bytes returns to the string body, u asks for exactly four
\* hex digits before the body resumes, and every other byte after the
\* backslash or in a hex position fails.  Stated of the byte fed and, once
\* for each state inside an escape (at the step that leaves it by finish), of
\* every byte value that could be fed there.
C17_Escapes ==
  [][/\ (op' = "finish" /\ error = "None" /\ state = "Es") =>
          \A b \in 0..255 :
            next_byte(Self, b).res = "Ok" <=> b \in SimpleEscapes \cup {117}
     /\ (op' = "finish" /\ error = "None" /\ state \in {"U1", "U2", "U3", "U4"}) =>
          \A b \in 0..255 : next_byte(Self, b).res = "Ok" <=> b \in HexDigits
     /\ (op' = "next_byte" /\ error = "None") =>
       /\ (state = "St" /\ lastB' = 92) => (ret' = "Ok" /\ state' = "Es")
       /\ state = "Es" =>
            IF lastB' \in SimpleEscapes THEN ret' = "Ok" /\ state' = "St"
            ELSE IF lastB' = 117 THEN ret' = "Ok" /\ state' = "U1"
            ELSE ret' \in Error
       /\ state \in {"U1", "U2", "U3", "U4"} =>
            IF lastB' \in HexDigits THEN ret' = "Ok" /\ state' = AfterHex(state)
            ELSE ret' \in Error]_vars

\* The fourth hex digit of a \u escape returned to the string body.
C17_Witness ==
  /\ op = "next_byte" /\ lastB \in HexDigits /\ lastT = "St" /\ ret = "Ok"
  /\ state = "St" /\ stack = <<"Done", "Array">>

\* C18: once the top-level value has closed (the stack is [Done] again) every
\* byte but space, tab, line feed and carriage return fails, a comma with
\* InvalidComma; the four whitespace bytes are accepted.
C18_OnlyWhitespaceAfter ==
  [][(op' = "next_byte" /\ error = "None" /\ stack = <<"Done">> /\ state # "Go") =>
       IF lastB' \in White THEN ret' = "Ok" /\ stack' = stack
       ELSE /\ ret' \in Error
            /\ lastB' = 44 => ret' = "InvalidComma"]_vars

\* A quote after the closed document, as in {...} "x"
C18_Witness ==
  /\ op = "next_byte" /\ lastB = 34 /\ ret = "InvalidState"
  /\ state = "Ok" /\ stack = <<"Done">> /\ outer_type = "Object"

\* The kind the first byte of a value implies.
KindOfByte(b) ==
  CASE b = 91 -> "Array"
    [] b = 123 -> "Object"
    [] b = 34 -> "String"
    [] b = 45 \/ b \in 48..57 -> "Number"
    [] b \in {116, 102} -> "Bool"
    [] b = 110 -> "Null"
    [] OTHER -> "None"

\* C19: when finish succeeds, the type it returns is the kind the first byte
\* fed that is not whitespace implies.
C19_OuterTypeOfFirstByte ==
  (op = "finish" /\ ret \in JsonType) => ret = KindOfByte(firstB)

\* finish returned Object for a document that holds values of other kinds.
C19_Witness ==
  /\ op = "finish" /\ ret = "Object" /\ firstB = 123 /\ error = "None"
  /\ max_depth = USIZE_MAX

\* C20: for max_depth >= 1 the stack never holds more than max_depth - 1
\* modes above Done, and an opening that would exceed that fails with
\* MaxDepthReached and leaves the stack as it is.
C20_BoundedStack ==
  [][max_depth >= 1 =>
       /\ Len(stack') - 1 <= max_depth - 1
       /\ (op' = "next_byte" /\ lastT' \in {"Wos", "Woc"}
             /\ Len(stack) - 1 >= max_depth - 1) =>
            (ret' = "MaxDepthReached" /\ stack' = stack)]_vars

\* The opening at the bound was refused.
C20_Witness ==
  /\ op = "next_byte" /\ lastT \in {"Wos", "Woc"} /\ ret = "MaxDepthReached"
  /\ max_depth = 1 /\ Len(stack) - 1 = max_depth - 1

(***************************************************************************)
(* Claims about the configurations the byte-fed checker reaches, checked   *)
(* under Spec.                                                             *)
(***************************************************************************)

\* C21: after any sequence of feeds, successful or failing, the stack is not
\* empty, its bottom is Done and Done occurs nowhere above the bottom.
C21_DoneAtBottom ==
  op # "finish" =>
    /\ Len(stack) >= 1
    /\ stack[1] = "Done"
    /\ \A i \in 2..Len(stack) : stack[i] # "Done"

\* C22: with no error latched, the stack holds one mode above Done for each
\* array or object open: its length minus one is the number of [ and {
\* consumed outside strings less the number of ] and }; an accepted colon or
\* comma swaps Key and Object on top and leaves the length as it is.
C22_DepthIsNesting ==
  [][/\ (error = "None" /\ op # "finish") => Len(stack) - 1 = level
     /\ (op' = "next_byte" /\ ret' = "Ok" /\ lastT' = "Wcl") =>
          /\ Last(stack) = "Key" /\ Last(stack') = "Object"
          /\ Len(stack') = Len(stack)
     /\ (op' = "next_byte" /\ ret' = "Ok" /\ lastT' = "Wcm") =>
          /\ Last(stack) = "Object" => Last(stack') = "Key"
          /\ Last(stack) = "Array" => stack' = stack
          /\ Len(stack') = Len(stack)]_vars

\* Inside an object nested in an array, a comma has put Key back on top.
C22_Witness ==
  /\ op = "next_byte" /\ lastT = "Wcm" /\ ret = "Ok" /\ error = "None"
  /\ level = 2 /\ stack = <<"Done", "Array", "Key">>

\* The 31 states that are rows of the table.
TableStates == {State[i] : i \in 1..31}

\* C23: the current state is always one of the 31 states the table has a row
\* for, never an action code or the Invalid sink, so the lookup of the state
\* and a class other than Invalid is inside the 31 x 31 table.
C23_StateIsTableState ==
  /\ is_valid(state)
  /\ state \in TableStates
  /\ Ord(State, state) + 1 \in DOMAIN STATE_TRANSITION_TABLE
  /\ \A i \in 1..Len(Class) :
       Class[i] # "Invalid" =>
         Ord(Class, Class[i]) + 1 \in DOMAIN STATE_TRANSITION_TABLE[Ord(State, state) + 1]

\* A feed that looked up the sink left the state where it was.
C23_Witness ==
  op = "next_byte" /\ lastT = "Invalid" /\ ret = "InvalidState" /\ state = "N2"

\* C24: the outer-type slot starts unset and, once set, no feed, successful
\* or failing, changes it.
C24_OuterTypeWriteOnce ==
  [][/\ op = "new" => outer_type = "None"
     /\ outer_type # "None" => outer_type' = outer_type]_vars

\* An object opened inside an array: the type stayed Array.
C24_Witness ==
  /\ op = "next_byte" /\ lastT = "Woc" /\ ret = "Ok" /\ outer_type = "Array"

\* C25: a byte >= 0x80 is of the catch-all class and never fails with
\* InvalidCharacter: looked up in the string body it succeeds and leaves the
\* state and the stack as they are, in any other state it fails with
\* InvalidState.  Stated of the byte fed and, once for each state (at the step
\* that leaves it by finish), of every byte value from 0x80 on.
C25_HighBytes ==
  [][/\ (op' = "finish" /\ error = "None") =>
          \A b \in 128..255 :
            next_byte(Self, b).res = (IF state = "St" THEN "Ok" ELSE "InvalidState")
     /\ (op' = "next_byte" /\ error = "None" /\ lastB' >= 128) =>
          IF state = "St"
          THEN ret' = "Ok" /\ state' = "St" /\ stack' = stack
          ELSE ret' = "InvalidState"]_vars

\* 0xFF accepted in a string body.
C25_Witness ==
  /\ op = "next_byte" /\ lastB = 255 /\ ret = "Ok" /\ state = "St"
  /\ lastT = "St"

\* The errors a feed returns.
FeedErrors ==
  {"InvalidCharacter", "OrphanCurlyBrace", "OrphanSquareBrace",
   "MaxDepthReached", "InvalidComma", "InvalidState"}

\* C27: a feed returns Ok or one of six errors, for every max_depth: when the
\* entry looked up is the empty-close-brace, the colon or the quote action the
\* top of the stack is the mode the action needs, so EmptyCurlyBraces,
\* InvalidColon and InvalidQuote are never returned, and the flips of the
\* colon and the comma never fail.
C27_FeedErrors ==
  [][op' = "next_byte" =>
       /\ ret' \in {"Ok"} \cup FeedErrors
       /\ lastT' = "Wec" => (Last(stack) = "Key" /\ ret' = "Ok")
       /\ lastT' = "Wcl" => (Last(stack) = "Key" /\ ret' = "Ok")
       /\ lastT' = "Wq" => (Last(stack) \in {"Key", "Array", "Object"} /\ ret' = "Ok")
       /\ (lastT' = "Wcm" /\ Last(stack) = "Object") => ret' = "Ok"]_vars

\* The colon flipped Key to Object with the stack at the depth bound.
C27_Witness ==
  /\ op = "next_byte" /\ lastT = "Wcl" /\ ret = "Ok"
  /\ max_depth = 3 /\ stack = <<"Done", "Object">>

\* C28: while only whitespace has been fed (or nothing), no feed fails and the
\* state stays the start state, and finish returns IncompleteElement.
C28_WhitespaceOnly ==
  [][firstB' = -1 =>
       /\ op' = "next_byte" => (ret' = "Ok" /\ state' = "Go" /\ error' = "None")
       /\ op' = "finish" => ret' = "IncompleteElement"]_vars

\* A carriage return fed to a checker that has seen whitespace only.
C28_Witness ==
  /\ op = "next_byte" /\ lastB = 13 /\ firstB = -1 /\ ret = "Ok" /\ state = "Go"

(***************************************************************************)
(* SpecWF: the checker is fed a well-formed document, produced byte by     *)
(* byte by a leftmost derivation of the JSON grammar (RFC 8259): value,    *)
(* object, array, string with its escapes, number, the three literals, and *)
(* optional whitespace around the structural characters and the document.  *)
(* The checker is JsonChecker::new's: the default max depth.               *)
(***************************************************************************)
\* The terminal symbols and the bytes each stands for.
Term ==
  ("WS" :> {32, 9, 10, 13}) @@
  ("{" :> {123}) @@ ("}" :> {125}) @@ ("[" :> {91}) @@ ("]" :> {93}) @@
  (":" :> {58}) @@ ("," :> {44}) @@ ("QUOTE" :> {34}) @@ ("BACKSLASH" :> {92}) @@
  ("CHAR" :> ((32..255) \ {34, 92})) @@
  ("ESC" :> {34, 92, 47, 98, 102, 110, 114, 116}) @@ ("u" :> {117}) @@
  ("HEX" :> ((48..57) \cup (65..70) \cup (97..102))) @@
  ("-" :> {45}) @@ ("0" :> {48}) @@ ("D19" :> (49..57)) @@ ("DIGIT" :> (48..57)) @@
  ("." :> {46}) @@ ("E" :> {69, 101}) @@ ("SIGN" :> {43, 45}) @@
  ("t" :> {116}) @@ ("r" :> {114}) @@ ("e" :> {101}) @@ ("f" :> {102}) @@
  ("a" :> {97}) @@ ("l" :> {108}) @@ ("s" :> {115}) @@ ("n" :> {110})

\* The productions of each nonterminal: the right-hand sides it may become.
Productions(sym) ==
  CASE sym = "ws" -> {<<>>, <<"WS", "ws">>}
    [] sym = "value" ->
         {<<"object">>, <<"array">>, <<"string">>, <<"number">>,
          <<"true">>, <<"false">>, <<"null">>}
    [] sym = "object" -> {<<"{", "ws", "obj1">>}
    [] sym = "obj1" -> {<<"}">>, <<"member", "ws", "obj2">>}
    [] sym = "obj2" -> {<<"}">>, <<",", "ws", "member", "ws", "obj2">>}
    [] sym = "member" -> {<<"string", "ws", ":", "ws", "value">>}
    [] sym = "array" -> {<<"[", "ws", "arr1">>}
    [] sym = "arr1" -> {<<"]">>, <<"value", "ws", "arr2">>}
    [] sym = "arr2" -> {<<"]">>, <<",", "ws", "value", "ws", "arr2">>}
    [] sym = "string" -> {<<"QUOTE", "chars">>}
    [] sym = "chars" ->
         {<<"QUOTE">>, <<"CHAR", "chars">>, <<"BACKSLASH", "escape", "chars">>}
    [] sym = "escape" -> {<<"ESC">>, <<"u", "HEX", "HEX", "HEX", "HEX">>}
    [] sym = "number" -> {<<"int", "frac", "exp">>, <<"-", "int", "frac", "exp">>}
    [] sym = "int" -> {<<"0">>, <<"D19", "digits">>}
    [] sym = "digits" -> {<<>>, <<"DIGIT", "digits">>}
    [] sym = "frac" -> {<<>>, <<".", "DIGIT", "digits">>}
    [] sym = "exp" -> {<<>>, <<"E", "DIGIT", "digits">>, <<"E", "SIGN", "DIGIT", "digits">>}
    [] sym = "true" -> {<<"t", "r", "u", "e">>}
    [] sym = "false" -> {<<"f", "a", "l", "s", "e">>}
    [] sym = "null" -> {<<"n", "u", "l", "l">>}

\* The symbols a document of each kind starts from.
KindSyms(kind) ==
  CASE kind = "Array" -> {"array"}
    [] kind = "Object" -> {"object"}
    [] kind = "String" -> {"string"}
    [] kind = "Number" -> {"number"}
    [] kind = "Bool" -> {"true", "false"}
    [] kind = "Null" -> {"null"}

\* Bound: the arrays and objects open at once in a produced document.
MaxNest == 2

\* The arrays and objects the derivation has open or is about to open.
Nest(g) == Cardinality({i \in 1..Len(g) : g[i] \in {"array", "object", "arr1", "arr2", "obj1", "obj2"}})

InitWF ==
  /\ IsSelf(new)
  /\ op = "new" /\ ret = "Ok" /\ lastT = "None" /\ lastB = -1 /\ firstB = -1 /\ level = 0
  /\ NoIo /\ NoRef
  /\ gtop \in JsonType
  /\ \E s \in KindSyms(gtop) : gstack = <<"ws", s, "ws">>

\* The producer rewrites the leftmost symbol, a nonterminal.
Derive ==
  /\ op # "finish"
  /\ Len(gstack) > 0
  /\ Head(gstack) \notin DOMAIN Term
  /\ \E rhs \in Productions(Head(gstack)) :
       /\ Nest(rhs \o Tail(gstack)) <= MaxNest
       /\ gstack' = rhs \o Tail(gstack)
  /\ UNCHANGED <<jcVars, op, ret, lastT, lastB, firstB, level, gtop, ioVars, refVars>>

\* The leftmost symbol is a terminal: one of its bytes goes to next_byte.
Emit(b) ==
  /\ op # "finish"
  /\ Len(gstack) > 0
  /\ Head(gstack) \in DOMAIN Term
  /\ b \in Term[Head(gstack)]
  /\ Returned(next_byte(Self, b))
  /\ lastT' = Lookup(Self, b) /\ lastB' = b /\ firstB' = FirstByte(b)
  /\ level' = LevelAfter(b, ret')
  /\ op' = "next_byte"
  /\ gstack' = Tail(gstack)
  /\ UNCHANGED <<gtop, ioVars, refVars>>

\* The document is complete: finish.
FinishWF ==
  /\ op # "finish"
  /\ gstack = <<>>
  /\ Returned(finish(Self))
  /\ op' = "finish"
  /\ lastT' = "None" /\ lastB' = -1 /\ firstB' = firstB
  /\ level' = level
  /\ UNCHANGED <<gstack, gtop, ioVars, refVars>>

NextWF ==
  \/ Derive
  \/ \E b \in Bytes : Emit(b)
  \/ FinishWF

SpecWF == InitWF /\ [][NextWF]_vars

\* C1: with the default max depth, a well-formed document whose top-level
\* value is an array or an object is accepted: no feed fails, and finish
\* returns Array for an array and Object for an object.
C1_WellFormedAccepted ==
  gtop \in {"Array", "Object"} =>
    /\ error = "None"
    /\ ret \notin Error
    /\ op = "finish" => ret = gtop

\* A whole document was produced, fed and finished.
C1_Witness ==
  op = "finish" /\ gstack = <<>> /\ gtop = "Object" /\ ret = "Object"

\* C2: a document that is a single top-level scalar is accepted, and finish
\* returns String, Number, Bool or Null according to the scalar.
C2_ScalarAccepted ==
  gtop \in {"String", "Number", "Bool", "Null"} =>
    /\ error = "None"
    /\ ret \notin Error
    /\ op = "finish" => ret = gtop

(***************************************************************************)
(* SpecBulk: the checker is fed slices through next_bytes.  Beside each    *)
(* bulk feed the model keeps what feeding the same slice to next_byte,     *)
(* byte by byte from the same checker, returns and leaves.                 *)
(***************************************************************************)
\* Eight bytes `a` with the k-th replaced by b.
Fill(k, b) == [i \in 1..Lanes |-> IF i = k THEN b ELSE 97]

\* The bytes tried inside a full chunk: plain, the five the skip path looks
\* for, a space, control bytes, a closing bracket, a high byte.
ChunkBytes == {97, 34, 92, 9, 10, 13, 32, 0, 31, 93, 128}

\* The slices fed: every single byte, every full chunk of `a` with one byte
\* replaced, and the same followed by one more byte.
Slices ==
  {<<b>> : b \in Bytes}
    \cup {Fill(k, b) : k \in 1..Lanes, b \in ChunkBytes}
    \cup {Fill(k, b) \o <<34>> : k \in {1, Lanes}, b \in ChunkBytes}

InitBulk ==
  /\ \E d \in MaxDepths : IsSelf(with_max_depth(d))
  /\ op = "new" /\ ret = "Ok" /\ lastT = "None" /\ lastB = -1 /\ firstB = -1 /\ level = 0
  /\ NoIo /\ NoGen /\ NoRef

\* The reference: r is what the byte-by-byte feed returned.
Reference(r) == refjc' = r.jc /\ refret' = r.res

Bulk(bytes) ==
  /\ op # "finish"
  /\ Returned(next_bytes(Self, bytes))
  /\ Len(stack') <= MaxStack
  /\ Reference(try_for_each(Self, bytes))
  /\ op' = "next_bytes"
  /\ lastT' = "None" /\ lastB' = -1 /\ firstB' = firstB
  /\ level' = level
  /\ UNCHANGED <<ioVars, genVars>>

NextBulk == \E bytes \in Slices : Bulk(bytes)

SpecBulk == InitBulk /\ [][NextBulk]_vars

\* C7: next_bytes(slice), its skip path included, returns the same result and
\* leaves the same state, stack, latch and outer type as next_byte called on
\* each byte of the slice in order up to the first error.
C7_BulkIsByteByByte ==
  op = "next_bytes" => (ret = refret /\ Self = refjc)

(***************************************************************************)
(* SpecRead: the JsonChecker as an io::Read adapter over a source, driven  *)
(* by a caller of read and finish ("user"), by validate (io::copy, then    *)
(* finish), or replaced by validate_bytes on the whole input.              *)
(* The source hands its bytes over in chunks of its choosing and may fail, *)
(* with an error io::copy returns ("IoError") or with one of               *)
(* ErrorKind::Interrupted, after which io::copy calls read again.          *)
(***************************************************************************)
\* Lines 466-468 of read: `self.next_bytes(&buf[..len])?; Ok(len)`, r what
\* next_bytes returned and out the bytes of buf[..len].
Fed(r, out) ==
  IF r.res # "Ok"
  THEN [jc |-> r.jc, res |-> r.res, out |-> <<>>, asked |-> TRUE]
  ELSE [jc |-> r.jc, res |-> "Ok", out |-> out, asked |-> TRUE]

\* read with the slice one byte short of what the source wrote.
read_short(jc, src) ==
  IF jc.error # "None"
  THEN [jc |-> jc, res |-> jc.error, out |-> <<>>, asked |-> FALSE]
  ELSE IF ~src.ok
  THEN [jc |-> [jc EXCEPT !.error = "IncompleteElement"],
        res |-> src.err, out |-> <<>>, asked |-> TRUE]
  ELSE Fed(next_bytes(jc, src.bytes), SubSeq(src.bytes, 1, Len(src.bytes) - 1))

\* read that returns the source's error without setting the latch.
read_unlatched(jc, src) ==
  IF jc.error # "None"
  THEN [jc |-> jc, res |-> jc.error, out |-> <<>>, asked |-> FALSE]
  ELSE IF ~src.ok
  THEN [jc |-> jc, res |-> src.err, out |-> <<>>, asked |-> TRUE]
  ELSE Fed(next_bytes(jc, src.bytes), src.bytes)

\* io::Read::read.  src is what self.reader.read(buf) returns if it is called:
\* [ok |-> FALSE, err |-> the error], or [ok |-> TRUE, bytes |-> the bytes
\* written to buf].
\* The result: the checker, the return value ("Ok" for Ok(len)), the bytes of
\* buf[..len] the caller gets, and whether the source was asked.
read(jc, src) ==
  IF jc.error # "None"
  THEN [jc |-> jc, res |-> jc.error, out |-> <<>>, asked |-> FALSE]
  ELSE IF ~src.ok
  THEN [jc |-> [jc EXCEPT !.error = "IncompleteElement"],
        res |-> src.err, out |-> <<>>, asked |-> TRUE]
  ELSE Fed(next_bytes(jc, src.bytes), src.bytes)

\* The validator returns what finish returned, f.
Finished(f) == [jc |-> f.jc, res |-> f.res, fin |-> TRUE]

\* validate after io::copy returned `copied`: the `?`, then finish.
validate_tail(jc, copied) ==
  IF copied # "Ok"
  THEN [jc |-> jc, res |-> copied, fin |-> FALSE]
  ELSE Finished(finish(jc))

\* The `?` on what next_bytes returned, r, then finish.
OrFinish(r) ==
  IF r.res # "Ok"
  THEN [jc |-> r.jc, res |-> r.res, fin |-> FALSE]
  ELSE Finished(finish(r.jc))

\* validate_bytes / validate_str: next_bytes on a new checker, the `?`, finish.
validate_bytes(bytes) == OrFinish(next_bytes(new, bytes))

\* Bounds: the length of the short inputs, and the calls made to the source.
MaxInput == 3
MaxReads == 5

\* The bytes of the short inputs: [ ] " 1 } ,
ReadBytes == {91, 93, 34, 49, 125, 44}

\* Every short input, and arrays of one string of eight or more bytes: a full
\* chunk of `a`, possibly with a control byte or an escape inside, right
\* after the opening quote or from the ninth byte of the input on.
Inputs ==
  UNION {[1..n -> ReadBytes] : n \in 0..MaxInput}
    \cup {<<91, 34>> \o Fill(k, b) \o <<34, 93>> : k \in {1, Lanes}, b \in {97, 0, 92}}
    \cup {<<91, 34>> \o Fill(1, 97) \o <<34>>}
    \cup {<<91, 34, 97, 97, 97, 97, 97, 97>> \o Fill(1, b) \o <<34, 93>> : b \in {0, 9}}

Callers == {"user", "validate", "validate_bytes"}

InitRead ==
  /\ IsSelf(new)
  /\ op = "new" /\ ret = "Ok" /\ lastT = "None" /\ lastB = -1 /\ firstB = -1 /\ level = 0
  /\ input \in Inputs /\ caller \in Callers
  /\ rpos = 0 /\ sourceReads = 0 /\ sourceErr = "None"
  /\ delivered = <<>> /\ retLen = 0 /\ firstErr = "None" /\ fin = FALSE
  /\ NoGen /\ NoRef

\* The lengths the source may return: 0 at the end of the input only.
SourceLens == IF rpos = Len(input) THEN {0} ELSE 1..(Len(input) - rpos)

\* One call of read, by the user or by io::copy.  io::copy stops calling at
\* Ok(0) and at the first Err that is not of ErrorKind::Interrupted; an Error
\* of the checker becomes an io::Error of ErrorKind::Other.
\* The errors of the source: one io::copy returns, one it retries after.
SourceErrors == {"IoError", "Interrupted"}

\* What the source returns when asked: an error, or its next n bytes.
Source(n, fails) ==
  IF fails # "None" THEN [ok |-> FALSE, err |-> fails]
  ELSE [ok |-> TRUE, bytes |-> SubSeq(input, rpos + 1, rpos + n)]

\* A call of read returned r.
ReadReturned(r, n, fails) ==
  /\ r.asked => sourceReads < MaxReads
  /\ Returned(r)
  /\ retLen' = Len(r.out)
  /\ delivered' = delivered \o r.out
  /\ sourceReads' = IF r.asked THEN sourceReads + 1 ELSE sourceReads
  /\ sourceErr' = IF r.asked THEN fails ELSE sourceErr
  /\ rpos' = IF r.asked /\ fails = "None" THEN rpos + n ELSE rpos
  /\ firstErr' = IF firstErr = "None" /\ r.res # "Ok" THEN r.res ELSE firstErr

Read(n, fails) ==
  /\ caller \in {"user", "validate"}
  /\ op \in {"new", "read"}
  /\ caller = "validate" /\ op = "read" =>
       (ret = "Ok" /\ retLen > 0) \/ ret = "Interrupted"
  /\ ReadReturned(read(Self, Source(n, fails)), n, fails)
  /\ op' = "read"
  /\ lastT' = "None" /\ lastB' = -1 /\ firstB' = firstB
  /\ level' = level
  /\ UNCHANGED <<input, caller, fin, genVars, refVars>>

\* The user finishes, at any point.
FinishRead ==
  /\ caller = "user"
  /\ op \in {"new", "read"}
  /\ Returned(finish(Self))
  /\ op' = "finish"
  /\ lastT' = "None" /\ lastB' = -1 /\ firstB' = firstB
  /\ level' = level
  /\ UNCHANGED <<ioVars, genVars, refVars>>

\* A validator returned v = [jc, res, fin].
Validated(v) == Returned(v) /\ fin' = v.fin

\* The error of a feed that returned r, if any.
FeedError(r) == IF r.res # "Ok" THEN r.res ELSE "None"

\* validate returns: io::copy has ended with the last read's Err or at Ok(0).
ValidateReturn ==
  /\ caller = "validate"
  /\ op = "read"
  /\ ret # "Interrupted"
  /\ ret # "Ok" \/ retLen = 0
  /\ Validated(validate_tail(Self, ret))
  /\ op' = "validate"
  /\ lastT' = "None" /\ lastB' = -1 /\ firstB' = firstB
  /\ level' = level
  /\ UNCHANGED <<input, rpos, sourceReads, sourceErr, delivered, retLen, firstErr,
                 caller, genVars, refVars>>

\* validate_bytes(input), and validate_str on the same bytes.
ValidateBytes ==
  /\ caller = "validate_bytes"
  /\ op = "new"
  /\ Validated(validate_bytes(input))
  /\ firstErr' = FeedError(next_bytes(new, input))
  /\ op' = "validate_bytes"
  /\ lastT' = "None" /\ lastB' = -1 /\ firstB' = firstB
  /\ level' = level
  /\ UNCHANGED <<input, rpos, sourceReads, sourceErr, delivered, retLen,
                 caller, genVars, refVars>>

NextRead ==
  \/ \E n \in SourceLens, fails \in {"None"} \cup SourceErrors : Read(n, fails)
  \/ FinishRead
  \/ ValidateReturn
  \/ ValidateBytes

SpecRead == InitRead /\ [][NextRead]_vars

\* What a read call may return as an error.
ReadError == Error \cup SourceErrors

\* C6: the bytes the successful read calls delivered are, in order, the bytes
\* the adapter took from the source in those calls: always a prefix of the
\* input, all of what the source handed over while no read has failed, and
\* so the entire input when it was read to its end, also when finish then
\* rejects it.
C6_PassThrough ==
  /\ Len(delivered) <= rpos
  /\ delivered = SubSeq(input, 1, Len(delivered))
  /\ firstErr = "None" /\ caller # "validate_bytes" => delivered = SubSeq(input, 1, rpos)
  /\ firstErr = "None" /\ op = "read" /\ retLen = 0 => delivered = input

\* An input read to its end in several reads, none failing, that finish rejects.
C6_Witness ==
  /\ op = "finish" /\ ret = "IncompleteElement" /\ firstErr = "None"
  /\ sourceReads >= 3 /\ Len(input) >= 2 /\ delivered = input

\* C9: after a read has returned an error, a syntax error or the source's,
\* every later read returns an error and does not call the source; the read
\* in which the source fails returns the source's error.
C9_ReadFused ==
  [][op' = "read" =>
       /\ firstErr # "None" => (ret' \in ReadError /\ sourceReads' = sourceReads)
       /\ (sourceReads' # sourceReads /\ sourceErr' # "None") => ret' = sourceErr']_vars

\* A read after the source failed: answered from the latch.
C9_Witness ==
  /\ op = "read" /\ firstErr = "IoError" /\ ret = "IncompleteElement"
  /\ sourceReads >= 2 /\ sourceErr = "IoError"

\* C10: the one-shot validators return the first error raised while feeding
\* the input, a syntax error or the source's, and do not call finish after
\* it; when no feed fails they return what finish returns, the outer type
\* or IncompleteElement.
C10_Validators ==
  op \in {"validate", "validate_bytes"} =>
    IF firstErr # "None"
    THEN ret = firstErr /\ ~fin
    ELSE /\ fin
         /\ ret \in JsonType \cup {"IncompleteElement"}
         /\ ret \in JsonType => ret = outer_type

\* The bytes of a document that lie inside a string body: between an opening
\* quote and the next quote no backslash precedes.  in: inside a string;
\* esc: right after a backslash.
RECURSIVE StringBody(_, _, _)
StringBody(bytes, in, esc) ==
  IF Len(bytes) = 0 THEN {}
  ELSE LET b == Head(bytes)
           rest == Tail(bytes)
       IN  IF ~in THEN StringBody(rest, b = 34, FALSE)
           ELSE IF esc THEN {b} \cup StringBody(rest, TRUE, FALSE)
           ELSE IF b = 34 THEN StringBody(rest, FALSE, FALSE)
           ELSE {b} \cup StringBody(rest, TRUE, b = 92)

\* The bytes the checker has been given: the whole input by validate_bytes,
\* what the source has handed over otherwise.
Given == IF caller = "validate_bytes" THEN input ELSE SubSeq(input, 1, rpos)

\* C12: an input with a byte in 0x00-0x1F inside a string body, given to
\* validate_bytes or read through the adapter in any chunks, is rejected: no
\* validator and no finish returns an outer type for it.
C12_ControlInStringRejected ==
  (op \in {"finish", "validate", "validate_bytes"} /\ ret \in JsonType) =>
    StringBody(Given, FALSE, FALSE) \cap (0..31) = {}

\* What a caller makes of a result: the outer type, or a rejection.
Verdict(res) == IF res \in JsonType THEN res ELSE "reject"

\* C26: the verdict does not depend on how the source splits the input into
\* reads: when the source has not failed, validate (the adapter drained by
\* io::copy, then finish) and a user who read the input to its end without an
\* error and then finished get the verdict validate_bytes gives for the whole
\* input, the same outer type or a rejection.
C26_ChunkingIndependent ==
  /\ (op = "validate" /\ firstErr \notin SourceErrors) =>
       Verdict(ret) = Verdict(validate_bytes(input).res)
  /\ (op = "finish" /\ firstErr = "None" /\ rpos = Len(input)) =>
       Verdict(ret) = Verdict(validate_bytes(input).res)
====
